---------------------------- MODULE Spec2Model ----------------------------
(***************************************************************************)
(* A model of src/OnlineCodeEditor.jsx: the three source buffers, the      *)
(* composed preview document, the debounced and the manual preview         *)
(* refresh, the iframe's srcDoc attribute, the save to localStorage, the   *)
(* share token of the address and the restore at load.                     *)
(*                                                                         *)
(* A JavaScript string is a sequence of character codes.  The platform     *)
(* functions the component calls (JSON.stringify, JSON.parse, btoa, atob,  *)
(* encodeURIComponent/unescape, escape/decodeURIComponent and the          *)
(* URLSearchParams serialisation) are operators that compute what the      *)
(* platform computes on the inputs of the model.                           *)
(***************************************************************************)
EXTENDS Integers, Sequences, FiniteSets, TLC

(***************************************************************************)
(* Character codes and small helpers                                       *)
(***************************************************************************)
Min(a, b) == IF a < b THEN a ELSE b

Max(a, b) == IF a > b THEN a ELSE b

\* "html", "css", "js", "updatedAt" as character codes
KeyHtml == <<104, 116, 109, 108>>

KeyCss == <<99, 115, 115>>

KeyJs == <<106, 115>>

KeyUpdatedAt == <<117, 112, 100, 97, 116, 101, 100, 65, 116>>

FieldNames == {"html", "css", "js", "updatedAt"}

KeyName(k) ==
    CASE k = KeyHtml -> "html"
      [] k = KeyCss -> "css"
      [] k = KeyJs -> "js"
      [] k = KeyUpdatedAt -> "updatedAt"
      [] OTHER -> "other"

HexDigit(n) == IF n < 10 THEN 48 + n ELSE 55 + n

\* the value of a hexadecimal digit, -1 for any other character
HexValue(c) ==
    CASE c >= 48 /\ c <= 57 -> c - 48
      [] c >= 65 /\ c <= 70 -> c - 55
      [] c >= 97 /\ c <= 102 -> c - 87
      [] OTHER -> -1

(***************************************************************************)
(* Values: what a thrown exception, a JavaScript value read from JSON and  *)
(* a property of it look like in the model                                 *)
(***************************************************************************)
Undef == [k |-> "undef", s |-> <<>>]

Null == [k |-> "null", s |-> <<>>]

StrVal(s) == [k |-> "str", s |-> s]

NoFields == [f \in FieldNames |-> Undef]

JsNull == [k |-> "null", s |-> <<>>, o |-> NoFields]

JsStr(s) == [k |-> "str", s |-> s, o |-> NoFields]

JsObj(o) == [k |-> "obj", s |-> <<>>, o |-> o]

\* a result of a call that may throw
Thrown == [ok |-> FALSE, v |-> <<>>]

Ok(v) == [ok |-> TRUE, v |-> v]

(***************************************************************************)
(* JSON.stringify on strings and on flat objects of strings                *)
(***************************************************************************)
RECURSIVE JsonEscape(_)
JsonEscape(s) ==
    IF s = <<>> THEN <<>>
    ELSE LET c == Head(s)
             e == CASE c = 34 -> <<92, 34>>
                    [] c = 92 -> <<92, 92>>
                    [] c = 8 -> <<92, 98>>
                    [] c = 9 -> <<92, 116>>
                    [] c = 10 -> <<92, 110>>
                    [] c = 12 -> <<92, 102>>
                    [] c = 13 -> <<92, 114>>
                    [] c < 32 -> <<92, 117, 48, 48, HexDigit(c \div 16), HexDigit(c % 16)>>
                    [] OTHER -> <<c>>
         IN  e \o JsonEscape(Tail(s))

JsonQuote(s) == <<34>> \o JsonEscape(s) \o <<34>>

\* members: a sequence of <<key, string value>>
RECURSIVE JsonMembers(_)
JsonMembers(ms) ==
    IF ms = <<>> THEN <<>>
    ELSE JsonQuote(ms[1][1]) \o <<58>> \o JsonQuote(ms[1][2])
         \o (IF Len(ms) > 1 THEN <<44>> ELSE <<>>) \o JsonMembers(Tail(ms))

JsonStringify(ms) == <<123>> \o JsonMembers(ms) \o <<125>>

(***************************************************************************)
(* JSON.parse on the texts the model meets: a string, null, or an object   *)
(* whose members are strings or null.  Any other text is a SyntaxError.    *)
(* A parse step returns [ok, v, i]: the value and the index after it.      *)
(***************************************************************************)
ParseFail == [ok |-> FALSE, v |-> Undef, i |-> 0]

RECURSIVE ParseChars(_, _, _)
\* the characters of a string literal from index i (after the opening quote)
ParseChars(t, i, acc) ==
    IF i > Len(t) THEN ParseFail
    ELSE LET c == t[i] IN
      CASE c = 34 -> [ok |-> TRUE, v |-> StrVal(acc), i |-> i + 1]
        [] c < 32 -> ParseFail
        [] c = 92 ->
             IF i + 1 > Len(t) THEN ParseFail
             ELSE LET d == t[i + 1] IN
               CASE d = 34 -> ParseChars(t, i + 2, Append(acc, 34))
                 [] d = 92 -> ParseChars(t, i + 2, Append(acc, 92))
                 [] d = 47 -> ParseChars(t, i + 2, Append(acc, 47))
                 [] d = 98 -> ParseChars(t, i + 2, Append(acc, 8))
                 [] d = 102 -> ParseChars(t, i + 2, Append(acc, 12))
                 [] d = 110 -> ParseChars(t, i + 2, Append(acc, 10))
                 [] d = 114 -> ParseChars(t, i + 2, Append(acc, 13))
                 [] d = 116 -> ParseChars(t, i + 2, Append(acc, 9))
                 [] d = 117 ->
                      IF i + 5 > Len(t) THEN ParseFail
                      ELSE LET h1 == HexValue(t[i + 2])
                               h2 == HexValue(t[i + 3])
                               h3 == HexValue(t[i + 4])
                               h4 == HexValue(t[i + 5])
                           IN  IF h1 < 0 \/ h2 < 0 \/ h3 < 0 \/ h4 < 0 THEN ParseFail
                               ELSE ParseChars(t, i + 6,
                                        Append(acc, 4096 * h1 + 256 * h2 + 16 * h3 + h4))
                 [] OTHER -> ParseFail
        [] OTHER -> ParseChars(t, i + 1, Append(acc, c))

ParseString(t, i) ==
    IF i <= Len(t) /\ t[i] = 34 THEN ParseChars(t, i + 1, <<>>) ELSE ParseFail

\* a member's value: a string or null
ParseScalar(t, i) ==
    IF i + 3 <= Len(t) /\ SubSeq(t, i, i + 3) = <<110, 117, 108, 108>>
    THEN [ok |-> TRUE, v |-> Null, i |-> i + 4]
    ELSE ParseString(t, i)

RECURSIVE ParseMembers(_, _, _)
\* the members of an object from index i (at a key); a repeated key keeps the last
ParseMembers(t, i, o) ==
    LET key == ParseString(t, i) IN
    IF ~key.ok \/ key.i > Len(t) \/ t[key.i] # 58 THEN [ok |-> FALSE, o |-> o, i |-> 0]
    ELSE LET val == ParseScalar(t, key.i + 1)
             name == KeyName(key.v.s)
             o2 == IF name \in FieldNames THEN [o EXCEPT ![name] = val.v] ELSE o
         IN  IF ~val.ok \/ val.i > Len(t) THEN [ok |-> FALSE, o |-> o, i |-> 0]
             ELSE CASE t[val.i] = 125 -> [ok |-> TRUE, o |-> o2, i |-> val.i + 1]
                    [] t[val.i] = 44 -> ParseMembers(t, val.i + 1, o2)
                    [] OTHER -> [ok |-> FALSE, o |-> o, i |-> 0]

\* JSON.parse(t): Ok(value) or Thrown
JsonParse(t) ==
    IF t = <<>> THEN Thrown
    ELSE IF t[1] = 123
    THEN IF Len(t) >= 2 /\ t[2] = 125
         THEN (IF Len(t) = 2 THEN Ok(JsObj(NoFields)) ELSE Thrown)
         ELSE LET m == ParseMembers(t, 2, NoFields)
              IN  IF m.ok /\ m.i = Len(t) + 1 THEN Ok(JsObj(m.o)) ELSE Thrown
    ELSE LET r == ParseScalar(t, 1)
         IN  IF r.ok /\ r.i = Len(t) + 1
             THEN Ok(IF r.v.k = "null" THEN JsNull ELSE JsStr(r.v.s))
             ELSE Thrown

(***************************************************************************)
(* unescape(encodeURIComponent(s)): the UTF-8 bytes of s, one character    *)
(* per byte.  encodeURIComponent throws a URIError on a lone surrogate.    *)
(***************************************************************************)
IsHighSurrogate(c) == c >= 55296 /\ c <= 56319

IsLowSurrogate(c) == c >= 56320 /\ c <= 57343

RECURSIVE Utf8Bytes(_, _)
Utf8Bytes(s, acc) ==
    IF s = <<>> THEN Ok(acc)
    ELSE LET c == Head(s) IN
      CASE c < 128 -> Utf8Bytes(Tail(s), acc \o <<c>>)
        [] c >= 128 /\ c < 2048 ->
             Utf8Bytes(Tail(s), acc \o <<192 + (c \div 64), 128 + (c % 64)>>)
        [] IsHighSurrogate(c) ->
             IF Len(s) >= 2 /\ IsLowSurrogate(s[2])
             THEN LET p == 65536 + (c - 55296) * 1024 + (s[2] - 56320)
                  IN  Utf8Bytes(Tail(Tail(s)),
                          acc \o <<240 + (p \div 262144), 128 + ((p \div 4096) % 64),
                                   128 + ((p \div 64) % 64), 128 + (p % 64)>>)
             ELSE Thrown
        [] IsLowSurrogate(c) -> Thrown
        [] OTHER ->
             Utf8Bytes(Tail(s),
                 acc \o <<224 + (c \div 4096), 128 + ((c \div 64) % 64), 128 + (c % 64)>>)

Utf8Encode(s) == Utf8Bytes(s, <<>>)

(***************************************************************************)
(* decodeURIComponent(escape(b)): the string whose UTF-8 bytes are b;      *)
(* a URIError on a malformed, overlong or surrogate sequence, and on a     *)
(* character above 255 (escape writes it %uXXXX).                          *)
(***************************************************************************)
IsCont(b, i) == i <= Len(b) /\ b[i] >= 128 /\ b[i] < 192

RECURSIVE Utf8Chars(_, _, _)
Utf8Chars(b, i, acc) ==
    IF i > Len(b) THEN Ok(acc)
    ELSE LET c == b[i] IN
      CASE c < 128 -> Utf8Chars(b, i + 1, Append(acc, c))
        [] c >= 194 /\ c < 224 ->
             IF IsCont(b, i + 1)
             THEN Utf8Chars(b, i + 2, Append(acc, (c - 192) * 64 + (b[i + 1] - 128)))
             ELSE Thrown
        [] c >= 224 /\ c < 240 ->
             IF IsCont(b, i + 1) /\ IsCont(b, i + 2)
             THEN LET p == (c - 224) * 4096 + (b[i + 1] - 128) * 64 + (b[i + 2] - 128)
                  IN  IF p < 2048 \/ IsHighSurrogate(p) \/ IsLowSurrogate(p) THEN Thrown
                      ELSE Utf8Chars(b, i + 3, Append(acc, p))
             ELSE Thrown
        [] c >= 240 /\ c < 245 ->
             IF IsCont(b, i + 1) /\ IsCont(b, i + 2) /\ IsCont(b, i + 3)
             THEN LET p == (c - 240) * 262144 + (b[i + 1] - 128) * 4096
                           + (b[i + 2] - 128) * 64 + (b[i + 3] - 128)
                  IN  IF p < 65536 \/ p > 1114111 THEN Thrown
                      ELSE Utf8Chars(b, i + 4,
                               acc \o <<55296 + ((p - 65536) \div 1024),
                                        56320 + ((p - 65536) % 1024)>>)
             ELSE Thrown
        [] OTHER -> Thrown

Utf8Decode(b) == Utf8Chars(b, 1, <<>>)

(***************************************************************************)
(* btoa and atob                                                           *)
(***************************************************************************)
\* the base64 character of a 6-bit value
B64Char(n) ==
    CASE n < 26 -> 65 + n
      [] n >= 26 /\ n < 52 -> 71 + n
      [] n >= 52 /\ n < 62 -> n - 4
      [] n = 62 -> 43
      [] OTHER -> 47

\* the 6-bit value of a base64 character, -1 for any other character
B64Value(c) ==
    CASE c >= 65 /\ c <= 90 -> c - 65
      [] c >= 97 /\ c <= 122 -> c - 71
      [] c >= 48 /\ c <= 57 -> c + 4
      [] c = 43 -> 62
      [] c = 47 -> 63
      [] OTHER -> -1

RECURSIVE B64Groups(_, _, _)
B64Groups(b, i, acc) ==
    LET left == Len(b) - i + 1 IN
    CASE left <= 0 -> acc
      [] left = 1 ->
           acc \o <<B64Char(b[i] \div 4), B64Char((b[i] % 4) * 16), 61, 61>>
      [] left = 2 ->
           acc \o <<B64Char(b[i] \div 4),
                    B64Char((b[i] % 4) * 16 + (b[i + 1] \div 16)),
                    B64Char((b[i + 1] % 16) * 4), 61>>
      [] OTHER ->
           B64Groups(b, i + 3,
               acc \o <<B64Char(b[i] \div 4),
                        B64Char((b[i] % 4) * 16 + (b[i + 1] \div 16)),
                        B64Char((b[i + 1] % 16) * 4 + (b[i + 2] \div 64)),
                        B64Char(b[i + 2] % 64)>>)

\* btoa(b): InvalidCharacterError when a character is above 255
Btoa(b) ==
    IF \E i \in 1..Len(b) : b[i] > 255 THEN Thrown ELSE Ok(B64Groups(b, 1, <<>>))

IsAsciiSpace(c) == c \in {9, 10, 12, 13, 32}

RECURSIVE StripSpace(_)
StripSpace(s) ==
    IF s = <<>> THEN <<>>
    ELSE IF IsAsciiSpace(Head(s)) THEN StripSpace(Tail(s))
    ELSE <<Head(s)>> \o StripSpace(Tail(s))

\* the padding of a text whose length is a multiple of 4 is dropped
StripPadding(s) ==
    IF Len(s) > 0 /\ Len(s) % 4 = 0 /\ s[Len(s)] = 61
    THEN IF s[Len(s) - 1] = 61 THEN SubSeq(s, 1, Len(s) - 2) ELSE SubSeq(s, 1, Len(s) - 1)
    ELSE s

RECURSIVE B64Bytes(_, _, _)
B64Bytes(s, i, acc) ==
    LET left == Len(s) - i + 1
        v(j) == B64Value(s[i + j])
    IN
    CASE left <= 0 -> acc
      [] left = 2 -> acc \o <<v(0) * 4 + (v(1) \div 16)>>
      [] left = 3 -> acc \o <<v(0) * 4 + (v(1) \div 16), (v(1) % 16) * 16 + (v(2) \div 4)>>
      [] OTHER ->
           B64Bytes(s, i + 4,
               acc \o <<v(0) * 4 + (v(1) \div 16), (v(1) % 16) * 16 + (v(2) \div 4),
                        (v(2) % 4) * 64 + v(3)>>)

\* atob(s): InvalidCharacterError on a character outside the alphabet or a bad length
Atob(s) ==
    LET t == StripPadding(StripSpace(s)) IN
    IF Len(t) % 4 = 1 \/ \E i \in 1..Len(t) : B64Value(t[i]) < 0 THEN Thrown
    ELSE Ok(B64Bytes(t, 1, <<>>))

(***************************************************************************)
(* The `code` parameter of the address: URLSearchParams writes it          *)
(* (searchParams.set, then toString) and reads it back (get).  The texts   *)
(* of the model are ASCII.                                                 *)
(***************************************************************************)
IsFormSafe(c) ==
    \/ c >= 48 /\ c <= 57
    \/ c >= 65 /\ c <= 90
    \/ c >= 97 /\ c <= 122
    \/ c \in {42, 45, 46, 95}

RECURSIVE FormEncode(_)
FormEncode(s) ==
    IF s = <<>> THEN <<>>
    ELSE LET c == Head(s)
             e == CASE IsFormSafe(c) -> <<c>>
                    [] c = 32 -> <<43>>
                    [] OTHER -> <<37, HexDigit(c \div 16), HexDigit(c % 16)>>
         IN  e \o FormEncode(Tail(s))

RECURSIVE FormDecodeFrom(_, _, _)
FormDecodeFrom(q, i, acc) ==
    IF i > Len(q) THEN acc
    ELSE LET c == q[i] IN
      CASE c = 43 -> FormDecodeFrom(q, i + 1, Append(acc, 32))
        [] c = 37 /\ i + 2 <= Len(q) /\ HexValue(q[i + 1]) >= 0 /\ HexValue(q[i + 2]) >= 0 ->
             FormDecodeFrom(q, i + 3, Append(acc, 16 * HexValue(q[i + 1]) + HexValue(q[i + 2])))
        [] OTHER -> FormDecodeFrom(q, i + 1, Append(acc, c))

FormDecode(q) == FormDecodeFrom(q, 1, <<>>)

\* the address: whether it carries a `code` parameter, and the parameter as written
NoCode == [present |-> FALSE, q |-> <<>>]

WithCode(q) == [present |-> TRUE, q |-> q]

(***************************************************************************)
(* encodeState, decodeState                                                *)
(***************************************************************************)
Bundle(h, c, j) == [html |-> h, css |-> c, js |-> j]

BundleMembers(b) == <<<<KeyHtml, b.html>>, <<KeyCss, b.css>>, <<KeyJs, b.js>>>>

\* btoa(JSON.stringify(s)): the encoding without its UTF-8 step
encodeState_latin1(b) ==
    LET text == Btoa(JsonStringify(BundleMembers(b))) IN IF text.ok THEN text.v ELSE <<>>

\* btoa(unescape(encodeURIComponent(JSON.stringify(s)))), "" when a step throws
encodeState(b) ==
    LET bytes == Utf8Encode(JsonStringify(BundleMembers(b))) IN
    IF ~bytes.ok THEN <<>>
    ELSE LET text == Btoa(bytes.v) IN IF text.ok THEN text.v ELSE <<>>

\* JSON.parse(decodeURIComponent(escape(atob(str)))), null when a step throws
decodeState(str) ==
    LET bytes == Atob(str) IN
    IF ~bytes.ok THEN JsNull
    ELSE LET text == Utf8Decode(bytes.v) IN
         IF ~text.ok THEN JsNull
         ELSE LET val == JsonParse(text.v) IN IF val.ok THEN val.v ELSE JsNull

(***************************************************************************)
(* The preset bundles.  The text of a preset is abbreviated to a few of    *)
(* its characters, among them the ones serialisation treats specially      *)
(* (the quote, the newline, the dash above 255 of the default markup).     *)
(***************************************************************************)
DEFAULT_TEMPLATE ==
    Bundle(<<60, 34, 8212>>,   \* <!doctype html> ... "utf-8" ... Hello (dash) write
           <<47, 42, 10>>,     \* /* Styles go here */ (newline) body { ...
           <<47, 47, 39>>)      \* // JS goes here ... getElementById('app')

TemplateNames == {"default", "starter", "reactPlay"}

TEMPLATES ==
    [n \in TemplateNames |->
        CASE n = "default" -> DEFAULT_TEMPLATE
          [] n = "starter" ->
               Bundle(<<60, 10, 104, 49>>,   \* <!doctype html>(newline)<html><body><h1>
                      <<98, 123>>,          \* body{font-family: ...
                      <<100, 40>>)          \* document.getElementById( ...
          [] OTHER ->
               Bundle(<<60, 10, 114, 34>>,   \* ... <div id="root"> ...
                      <<47, 42, 114>>,       \* /* react play css */
                      <<99, 61>>)]          \* const e = React.createElement ...

(***************************************************************************)
(* srcDoc: the composed document.  The fixed text between the buffers is   *)
(* abbreviated to its tags.                                                *)
(***************************************************************************)
DocStyle == <<60, 115, 116, 121, 108, 101, 62>>

DocBody == <<60, 47, 115, 116, 121, 108, 101, 62, 60, 98, 111, 100, 121, 62>>

DocScript == <<60, 115, 99, 114, 105, 112, 116, 62, 116, 114, 121, 123>>

DocEnd == <<125, 99, 97, 116, 99, 104, 40, 101, 41, 123, 125, 60, 47, 115, 99, 114, 105, 112, 116, 62>>

srcDoc(h, c, j) == DocStyle \o c \o DocBody \o h \o DocScript \o j \o DocEnd

(***************************************************************************)
(* Bounds of the model                                                     *)
(***************************************************************************)
\* calls of an editing handler (onChange, applyTemplate, Clear) in a run
MaxEdits == 3

\* page loads after the first one
MaxLoads == 1

\* clicks on Save
MaxSaves == 2

\* the time one Tick lets pass, in milliseconds
TickMs == 100

\* the longest markup text of the share round trip
MaxLen == 2

\* the delay of the debounced preview and of the refresh at first load
DEBOUNCE_MS == 300

FIRST_REFRESH_MS == 50

(***************************************************************************)
(* The state                                                               *)
(***************************************************************************)
VARIABLES
    html, css, js,         \* the three buffers (useState)
    activeEditor,          \* "html", "css", "js"
    autoUpdate,            \* the Auto toggle
    lastSavedAt,           \* null or the timestamp of the last save
    iframe,                \* [attr: the srcdoc attribute, doc: the document shown]
    timers,                \* the pending setTimeout calls: [kind, left, doc]
    storage,               \* the localStorage slot: [present, raw]
    url,                   \* the `code` parameter of the address
    initial,               \* the `initial` prop
    clipboard,             \* the address last copied by Share
    crashed,               \* an exception escaped the component
    lastOp,                \* history: the last operation [op, arg]
    origin,                \* history: where each buffer's initial value came from
    saved,                 \* history: the bundle of the last successful save
    shared,                \* history: the bundle of the last Share
    quiet,                 \* history: ms since the preview was last scheduled
    renders,               \* history: debounced renders since then
    burst,                 \* history: the edits less than DEBOUNCE_MS apart, so far
    nEdits, nLoads, nSaves \* history: the calls counted against the bounds

vars == <<html, css, js, activeEditor, autoUpdate, lastSavedAt, iframe,
          timers, storage, url, initial, clipboard, crashed, lastOp, origin,
          saved, shared, quiet, renders, burst, nEdits, nLoads, nSaves>>

Current == Bundle(html, css, js)

Op(o) == [op |-> o, arg |-> ""]

OpArg(o, a) == [op |-> o, arg |-> a]

(***************************************************************************)
(* The environment: the addresses, stored values, props and typed texts    *)
(* a run draws from                                                        *)
(***************************************************************************)
Absent == [present |-> FALSE, raw |-> <<>>]

Stored(raw) == [present |-> TRUE, raw |-> raw]

\* btoa of a UTF-8 text, as somebody else's script would build a token
TokenOf(text) == FormEncode(Btoa(Utf8Encode(text).v).v)

SharedBundle == Bundle(<<115, 34>>, <<115, 8212>>, <<115, 10>>)

EnvCodes ==
    { NoCode,
      WithCode(<<>>),                                        \* ?code=
      WithCode(<<33, 33>>),                                  \* ?code=!! : atob throws
      WithCode(TokenOf(<<123, 34, 104, 116, 109, 108, 34, 58>>)),     \* a token of {"html": : JSON.parse throws
      WithCode(TokenOf(<<123, 34, 104, 116, 109, 108, 34, 58, 34, 117, 34, 125>>)), \* a token of {"html":"u"}
      WithCode(FormEncode(encodeState(SharedBundle))) }      \* a token Share made

\* a payload that writes the style under "js"
PayloadMembers_swapped(b, ts) ==
    <<<<KeyHtml, b.html>>, <<KeyCss, b.css>>, <<KeyJs, b.css>>, <<KeyUpdatedAt, ts>>>>

PayloadMembers(b, ts) == BundleMembers(b) \o <<<<KeyUpdatedAt, ts>>>>

StoredBundle == Bundle(<<112, 92>>, <<112, 233>>, <<112>>)

\* new Date().toISOString() at the n-th click on Save: a later save reads a later time
Timestamp(n) == <<48 + n>>

EnvStorage ==
    { Absent,
      Stored(<<123, 34, 104, 116, 109, 108, 34, 58, 34, 112, 92, 92, 34, 44, 34, 99, 115, 115>>),    \* a truncated snapshot
      Stored(<<123, 34, 99, 115, 115, 34, 58, 34, 113, 34, 125>>),              \* a snapshot of one field
      Stored(JsonStringify(PayloadMembers(StoredBundle, <<48>>))) }

InitialProps == {NoFields, [NoFields EXCEPT !["html"] = StrVal(<<105>>)]}

\* what the editor widget hands to onChange: a text or undefined
EditInputs == {Undef, StrVal(<<97, 34>>)}

Editors == {"html", "css", "js"}

(***************************************************************************)
(* The initial state of the component (lines 48-63)                        *)
(***************************************************************************)
\* urlParams.get("code"): null or the decoded parameter
urlCode(u) == IF u.present THEN StrVal(FormDecode(u.q)) ELSE Null

\* urlCode ? decodeState(urlCode) : null
fromUrl(u) ==
    LET code == urlCode(u) IN
    IF code.k = "str" /\ code.s # <<>> THEN decodeState(code.s) ELSE JsNull

\* the result of JSON.parse(raw) inside the try; null when raw is null or empty
StorageParse(st) == IF st.present /\ st.raw # <<>> THEN JsonParse(st.raw) ELSE Ok(JsNull)

\* the read without its try/catch
fromStorage_nocatch(st) == StorageParse(st)

\* the try/catch around it: null when JSON.parse throws, and nothing escapes
fromStorage(st) == LET r == StorageParse(st) IN IF r.ok THEN r ELSE Ok(JsNull)

\* the value of a result; null stands for the value of a call that threw
ValueOf(r) == IF r.ok THEN r.v ELSE JsNull

\* v?.f : undefined when v is null, and when v is a string (it has no such property)
OptField(v, f) == IF v.k = "obj" THEN v.o[f] ELSE Undef

IsNullish(x) == x.k \in {"undef", "null"}

\* fromUrl?.f ?? fromStorage?.f ?? initial.f ?? DEFAULT_TEMPLATE.f, and where it came from
Resolve(fu, fs, init, f) ==
    LET a == OptField(fu, f)
        b == OptField(fs, f)
        c == init[f]
    IN  CASE ~IsNullish(a) -> [s |-> a.s, from |-> "url"]
          [] IsNullish(a) /\ ~IsNullish(b) -> [s |-> b.s, from |-> "storage"]
          [] IsNullish(a) /\ IsNullish(b) /\ ~IsNullish(c) -> [s |-> c.s, from |-> "initial"]
          [] OTHER -> [s |-> DEFAULT_TEMPLATE[f], from |-> "default"]

\* if (fromUrl): an object or a non-empty string
Truthy(v) == v.k = "obj" \/ (v.k = "str" /\ v.s # <<>>)

(***************************************************************************)
(* The preview surface and the timers                                      *)
(***************************************************************************)
NoAttr == [set |-> FALSE, doc |-> <<>>]

Attr(doc) == [set |-> TRUE, doc |-> doc]

\* the document of an iframe that was given nothing
Blank == <<>>

\* srcDoc={autoUpdate ? undefined : srcDoc} (line 278)
SrcDocProp(au, doc) == IF au THEN NoAttr ELSE Attr(doc)

\* the iframe after a render that passes `prop`: a new srcdoc attribute loads its
\* document, a removed one leaves the frame on about:blank
IframeCommit(fr, prop) ==
    IF prop = fr.attr THEN fr
    ELSE [attr |-> prop, doc |-> IF prop.set THEN prop.doc ELSE Blank]

\* doc.open(); doc.write(srcDoc); doc.close()
DocWrite(fr, doc) == [fr EXCEPT !.doc = doc]

Timer(kind, left, doc) == [kind |-> kind, left |-> left, doc |-> doc]

\* a cleanup that cancels nothing
clearTimeout_keeps(ts) == ts

\* return () => clearTimeout(t) (line 108)
clearTimeout(ts) == {t \in ts : t.kind # "debounce"}

\* the effect with no new timer when only autoUpdate changed
DebounceEffect_deps(ts, oldDoc, oldAuto, newDoc, newAuto) ==
    IF oldDoc = newDoc /\ oldAuto = newAuto THEN ts
    ELSE LET cleaned == IF oldAuto THEN clearTimeout(ts) ELSE ts
         IN  IF newAuto /\ oldDoc # newDoc
             THEN cleaned \cup {Timer("debounce", DEBOUNCE_MS, newDoc)}
             ELSE cleaned

\* the effect of lines 98-109 after a render: nothing when its dependencies
\* [srcDoc, autoUpdate] are the same; else the cleanup of the previous run, then
\* a new timer when autoUpdate holds
DebounceEffect(ts, oldDoc, oldAuto, newDoc, newAuto) ==
    IF oldDoc = newDoc /\ oldAuto = newAuto THEN ts
    ELSE LET cleaned == IF oldAuto THEN clearTimeout(ts) ELSE ts
         IN  IF newAuto THEN cleaned \cup {Timer("debounce", DEBOUNCE_MS, newDoc)}
             ELSE cleaned

\* the effect of lines 186-192 at the first render: refreshPreview of that render
FirstRenderEffect(ts, fu, doc) ==
    IF Truthy(fu) THEN ts \cup {Timer("first", FIRST_REFRESH_MS, doc)} ELSE ts

\* a render with new buffers and a new autoUpdate: the iframe's attribute, the effects
Render(h, c, j, au) ==
    LET old == srcDoc(html, css, js)
        new == srcDoc(h, c, j)
        same == old = new /\ au = autoUpdate
    IN  /\ html' = h
        /\ css' = c
        /\ js' = j
        /\ autoUpdate' = au
        /\ iframe' = IframeCommit(iframe, SrcDocProp(au, new))
        /\ timers' = DebounceEffect(timers, old, autoUpdate, new, au)
        /\ quiet' = IF same THEN quiet ELSE 0
        /\ renders' = IF same THEN renders ELSE 0

(***************************************************************************)
(* Mount: the state after the first render and its effects                 *)
(***************************************************************************)
\* fu: fromUrl, fs: the result of reading fromStorage, init: the prop
Mounted(fu, fs, init) ==
    LET h == Resolve(fu, ValueOf(fs), init, "html")
        c == Resolve(fu, ValueOf(fs), init, "css")
        j == Resolve(fu, ValueOf(fs), init, "js")
        doc == srcDoc(h.s, c.s, j.s)
    IN  [html |-> h.s, css |-> c.s, js |-> j.s,
         origin |-> [html |-> h.from, css |-> c.from, js |-> j.from],
         activeEditor |-> "html",
         autoUpdate |-> TRUE,
         lastSavedAt |-> Null,
         iframe |-> [attr |-> SrcDocProp(TRUE, doc), doc |-> Blank],
         timers |-> FirstRenderEffect(
                        DebounceEffect({}, Blank, FALSE, doc, TRUE), fu, doc),
         crashed |-> ~fs.ok]

\* the first load, at an address, a stored value and a prop among the given ones
FirstLoad(codes, stores, props) ==
    /\ url \in codes
    /\ storage \in stores
    /\ initial \in props
    /\ clipboard = NoCode
    /\ \E m \in {Mounted(fu, fs, initial) :
                    fu \in {fromUrl(url)}, fs \in {fromStorage(storage)}} :
        /\ html = m.html /\ css = m.css /\ js = m.js
        /\ origin = m.origin
        /\ activeEditor = m.activeEditor
        /\ autoUpdate = m.autoUpdate
        /\ lastSavedAt = m.lastSavedAt
        /\ iframe = m.iframe
        /\ timers = m.timers
        /\ crashed = m.crashed
    /\ quiet = 0
    /\ renders = 0
    /\ burst = 0
    /\ lastOp = Op("load")
    /\ saved = [set |-> FALSE, b |-> Bundle(<<>>, <<>>, <<>>)]
    /\ shared = [set |-> FALSE, b |-> Bundle(<<>>, <<>>, <<>>)]
    /\ nEdits = 0
    /\ nLoads = 0
    /\ nSaves = 0

(***************************************************************************)
(* The handlers                                                            *)
(***************************************************************************)
\* history of an editing handler: an edit that changes the buffers joins the
\* burst of the edit before it when less than DEBOUNCE_MS passed since
Edited ==
    LET changed == <<html', css', js'>> # <<html, css, js>> IN
    /\ burst' = IF changed THEN (IF quiet < DEBOUNCE_MS THEN burst ELSE 0) + 1 ELSE burst

UiUnchanged == UNCHANGED <<activeEditor, lastSavedAt>>

EnvUnchanged == UNCHANGED <<storage, url, initial, clipboard, crashed, origin, saved, shared>>

\* v || ''
OrEmpty(v) == IF v.k = "str" THEN v.s ELSE <<>>

\* the editor's onChange (lines 252-256): the active buffer takes v || ''
onChange(v) ==
    /\ ~crashed /\ nEdits < MaxEdits
    /\ Render(IF activeEditor = "html" THEN OrEmpty(v) ELSE html,
              IF activeEditor = "css" THEN OrEmpty(v) ELSE css,
              IF activeEditor = "js" THEN OrEmpty(v) ELSE js,
              autoUpdate)
    /\ nEdits' = nEdits + 1
    /\ Edited
    /\ lastOp' = Op("edit")
    /\ UiUnchanged /\ EnvUnchanged /\ UNCHANGED <<nLoads, nSaves>>

\* applyTemplate without its setJs
applyTemplate_partial(name) ==
    /\ ~crashed /\ nEdits < MaxEdits
    /\ IF name \in TemplateNames
       THEN Render(TEMPLATES[name].html, TEMPLATES[name].css, js, autoUpdate)
       ELSE Render(html, css, js, autoUpdate)
    /\ nEdits' = nEdits + 1
    /\ Edited
    /\ lastOp' = OpArg("applyTemplate", name)
    /\ UiUnchanged /\ EnvUnchanged /\ UNCHANGED <<nLoads, nSaves>>

\* applyTemplate (lines 177-183); the select's first option has the value ""
applyTemplate(name) ==
    /\ ~crashed /\ nEdits < MaxEdits
    /\ IF name \in TemplateNames
       THEN Render(TEMPLATES[name].html, TEMPLATES[name].css, TEMPLATES[name].js, autoUpdate)
       ELSE Render(html, css, js, autoUpdate)
    /\ nEdits' = nEdits + 1
    /\ Edited
    /\ lastOp' = OpArg("applyTemplate", name)
    /\ UiUnchanged /\ EnvUnchanged /\ UNCHANGED <<nLoads, nSaves>>

\* the Clear button (line 242)
Clear ==
    /\ ~crashed /\ nEdits < MaxEdits
    /\ Render(<<>>, <<>>, <<>>, autoUpdate)
    /\ nEdits' = nEdits + 1
    /\ Edited
    /\ lastOp' = Op("clear")
    /\ UiUnchanged /\ EnvUnchanged /\ UNCHANGED <<nLoads, nSaves>>

\* the Auto button (line 219)
ToggleAuto ==
    /\ ~crashed
    /\ Render(html, css, js, ~autoUpdate)
    /\ burst' = 0
    /\ lastOp' = Op("toggle")
    /\ UiUnchanged /\ EnvUnchanged /\ UNCHANGED <<nEdits, nLoads, nSaves>>

\* the HTML, CSS and JS buttons (lines 232-234)
setActiveEditor(e) ==
    /\ ~crashed /\ e # activeEditor
    /\ activeEditor' = e
    /\ lastOp' = Op("editor")
    /\ EnvUnchanged
    /\ UNCHANGED <<html, css, js, autoUpdate, lastSavedAt, iframe, timers,
                   quiet, renders, burst, nEdits, nLoads, nSaves>>

\* refreshPreview, from the Refresh button (lines 112-119, 220)
refreshPreview ==
    /\ ~crashed
    /\ iframe' = DocWrite(iframe, srcDoc(html, css, js))
    /\ lastOp' = Op("refresh")
    /\ EnvUnchanged
    /\ UNCHANGED <<html, css, js, activeEditor, autoUpdate, lastSavedAt, timers,
                   quiet, renders, burst, nEdits, nLoads, nSaves>>

\* saveToLocal with setLastSavedAt ahead of the write
saveToLocal_stamps(writeOk) ==
    /\ ~crashed /\ nSaves < MaxSaves
    /\ nSaves' = nSaves + 1
    /\ lastSavedAt' = StrVal(Timestamp(nSaves'))
    /\ IF writeOk
       THEN /\ storage' = Stored(JsonStringify(PayloadMembers(Current, Timestamp(nSaves'))))
            /\ saved' = [set |-> TRUE, b |-> Current]
            /\ lastOp' = Op("save")
       ELSE /\ UNCHANGED <<storage, saved>>
            /\ lastOp' = Op("saveFailed")
    /\ crashed' = FALSE
    /\ UNCHANGED <<html, css, js, activeEditor, autoUpdate, iframe, timers, url,
                   initial, clipboard, origin, shared, quiet, renders, burst,
                   nEdits, nLoads>>

\* saveToLocal (lines 122-130); writeOk: whether localStorage.setItem returns or
\* throws (no storage, quota)
saveToLocal(writeOk) ==
    /\ ~crashed /\ nSaves < MaxSaves
    /\ nSaves' = nSaves + 1
    /\ IF writeOk
       THEN /\ storage' = Stored(JsonStringify(PayloadMembers(Current, Timestamp(nSaves'))))
            /\ lastSavedAt' = StrVal(Timestamp(nSaves'))
            /\ saved' = [set |-> TRUE, b |-> Current]
            /\ lastOp' = Op("save")
       ELSE /\ UNCHANGED <<storage, lastSavedAt, saved>>
            /\ lastOp' = Op("saveFailed")
    /\ crashed' = FALSE
    /\ UNCHANGED <<html, css, js, activeEditor, autoUpdate, iframe, timers, url,
                   initial, clipboard, origin, shared, quiet, renders, burst,
                   nEdits, nLoads>>

\* generateShareURL (lines 133-138): the `code` parameter of the address it returns
generateShareURL == WithCode(FormEncode(encodeState(Current)))

\* copyShareURL (lines 141-149): the address goes to the clipboard or to a prompt
copyShareURL ==
    /\ ~crashed
    /\ clipboard' = generateShareURL
    /\ shared' = [set |-> TRUE, b |-> Current]
    /\ lastOp' = Op("share")
    /\ UNCHANGED <<html, css, js, activeEditor, autoUpdate, lastSavedAt, iframe,
                   timers, storage, url, initial, crashed, origin, saved, quiet, renders,
                   burst, nEdits, nLoads, nSaves>>

(***************************************************************************)
(* Time and the timers                                                     *)
(***************************************************************************)
Due(t) == t.left = 0

\* time passes, TickMs at most and no further than the next deadline: a timer
\* that is due runs before more time passes
Tick ==
    /\ timers # {}
    /\ \A t \in timers : ~Due(t)
    /\ LET soonest == CHOOSE t \in timers : \A u \in timers : t.left <= u.left
           step == Min(TickMs, soonest.left)
       IN  /\ timers' = {[t EXCEPT !.left = t.left - step] : t \in timers}
           /\ quiet' = Min(DEBOUNCE_MS, quiet + step)
    /\ lastOp' = Op("tick")
    /\ UiUnchanged /\ EnvUnchanged
    /\ UNCHANGED <<html, css, js, autoUpdate, iframe, renders, burst,
                   nEdits, nLoads, nSaves>>

\* the callback of the debounce timer (lines 100-107)
DebounceFire ==
    \E t \in timers :
        /\ t.kind = "debounce" /\ Due(t)
        /\ iframe' = DocWrite(iframe, t.doc)
        /\ timers' = timers \ {t}
        /\ renders' = Min(2, renders + 1)
        /\ lastOp' = Op("debounceFire")
        /\ UiUnchanged /\ EnvUnchanged
        /\ UNCHANGED <<html, css, js, autoUpdate, quiet, burst,
                       nEdits, nLoads, nSaves>>

\* the callback of setTimeout(refreshPreview, 50) (line 189): the refreshPreview
\* of the first render, which writes the srcDoc of the first render
FirstRefreshFire ==
    \E t \in timers :
        /\ t.kind = "first" /\ Due(t)
        /\ iframe' = DocWrite(iframe, t.doc)
        /\ timers' = timers \ {t}
        /\ lastOp' = Op("firstRefresh")
        /\ UiUnchanged /\ EnvUnchanged
        /\ UNCHANGED <<html, css, js, autoUpdate, quiet, renders, burst, nEdits, nLoads, nSaves>>

(***************************************************************************)
(* A page load: the same address again, or the one Share copied            *)
(***************************************************************************)
LoadPage(u, init, how) ==
    /\ nLoads < MaxLoads
    /\ nLoads' = nLoads + 1
    /\ url' = u
    /\ initial' = init
    /\ \E m \in {Mounted(fu, fs, init) :
                    fu \in {fromUrl(u)}, fs \in {fromStorage(storage)}} :
        /\ html' = m.html /\ css' = m.css /\ js' = m.js
        /\ origin' = m.origin
        /\ activeEditor' = m.activeEditor
        /\ autoUpdate' = m.autoUpdate
        /\ lastSavedAt' = m.lastSavedAt
        /\ iframe' = m.iframe
        /\ timers' = m.timers
        /\ crashed' = m.crashed
    /\ quiet' = 0
    /\ renders' = 0
    /\ burst' = 0
    /\ lastOp' = Op(how)
    /\ UNCHANGED <<storage, clipboard, saved, shared, nEdits, nSaves>>

\* the page is loaded again
Load == LoadPage(url, initial, "load")

LoadShared == clipboard.present /\ LoadPage(clipboard, initial, "loadShared")

(***************************************************************************)
(* The specifications.  The preview (the iframe and the timers) and the    *)
(* store (localStorage and the clipboard) do not read each other: no       *)
(* handler of the one writes a variable a handler of the other reads,      *)
(* except through the buffers.  Each is explored with the handlers that    *)
(* write it, the buffers being edited in both.                             *)
(***************************************************************************)
Edits ==
    \/ \E v \in EditInputs : onChange(v)
    \/ \E name \in TemplateNames \cup {""} : applyTemplate(name)
    \/ Clear
    \/ \E e \in Editors : setActiveEditor(e)

\* the preview: a first load without or with a share token, no stored snapshot
\* (a later load of the same address starts the preview from the same state)
Init == FirstLoad({NoCode, WithCode(FormEncode(encodeState(SharedBundle)))},
                  {Absent}, {NoFields})

Next ==
    \/ Edits
    \/ ToggleAuto
    \/ refreshPreview
    \/ Tick
    \/ DebounceFire
    \/ FirstRefreshFire

Spec == Init /\ [][Next]_vars

\* the store: a first load at any address, stored value and prop of the environment;
\* the texts typed are the markup's
StoreInit == FirstLoad(EnvCodes, EnvStorage, InitialProps)

StoreNext ==
    \/ \E v \in EditInputs : onChange(v)
    \/ \E name \in TemplateNames \cup {""} : applyTemplate(name)
    \/ Clear
    \/ \E writeOk \in BOOLEAN : saveToLocal(writeOk)
    \/ Load

StoreSpec == StoreInit /\ [][StoreNext]_vars

\* the preview with the timers that are due running, and time passing
LiveSpec ==
    Spec /\ WF_vars(Tick) /\ WF_vars(DebounceFire) /\ WF_vars(FirstRefreshFire)

\* the share round trip: the buffers hold any texts up to the bounds, as after
\* typing them; Share copies the address and the address is loaded
ShareAlphabet == {10, 34, 92, 97, 233, 8212}

Texts(n) == UNION {[1..k -> ShareAlphabet] : k \in 0..n}

ShareInit ==
    /\ html \in Texts(MaxLen)
    /\ css \in Texts(1)
    /\ js \in Texts(1)
    /\ activeEditor = "js"
    /\ autoUpdate = TRUE
    /\ lastSavedAt = Null
    /\ iframe = [attr |-> NoAttr, doc |-> Blank]
    /\ timers = {Timer("debounce", DEBOUNCE_MS, srcDoc(html, css, js))}
    /\ storage \in {Absent, Stored(JsonStringify(PayloadMembers(StoredBundle, <<48>>)))}
    /\ url = NoCode
    /\ initial = NoFields
    /\ clipboard = NoCode
    /\ crashed = FALSE
    /\ lastOp = Op("edit")
    /\ origin = [html |-> "default", css |-> "default", js |-> "default"]
    /\ saved = [set |-> FALSE, b |-> Bundle(<<>>, <<>>, <<>>)]
    /\ shared = [set |-> FALSE, b |-> Bundle(<<>>, <<>>, <<>>)]
    /\ quiet = 0
    /\ renders = 0
    /\ burst = 1
    /\ nEdits = 0
    /\ nLoads = 0
    /\ nSaves = 0

ShareNext ==
    \/ copyShareURL
    \/ LoadShared

ShareSpec == ShareInit /\ [][ShareNext]_vars

(***************************************************************************)
(* The properties                                                          *)
(***************************************************************************)
Buffers == {"html", "css", "js"}

PreviewCurrent == iframe.doc = srcDoc(html, css, js)

DebounceTimers == {t \in timers : t.kind = "debounce"}

\* C1: while autoUpdate is off, no step but a refreshPreview changes the iframe:
\* neither its srcdoc attribute nor the document it shows.
C1_ManualModeKeepsPreview ==
    [][(~autoUpdate /\ ~autoUpdate' /\ lastOp'.op \notin {"refresh", "firstRefresh"})
        => iframe' = iframe]_vars

\* C2: with autoUpdate on, edits less than DEBOUNCE_MS apart are rendered once, by
\* the one timer that is pending: it holds the document of the latest edit, it
\* fires DEBOUNCE_MS after that edit and not before, and what it writes is the
\* document of the buffers.
C2_DebounceCoalesces ==
    /\ renders <= 1
    /\ (lastOp.op = "debounceFire" =>
            autoUpdate /\ quiet >= DEBOUNCE_MS /\ renders = 1 /\ PreviewCurrent)
    /\ (autoUpdate /\ renders = 0 =>
            DebounceTimers = {Timer("debounce", DEBOUNCE_MS - quiet, srcDoc(html, css, js))})
    /\ (~autoUpdate => DebounceTimers = {})

\* a burst of two edits or more has been rendered, once
C2_Witness == lastOp.op = "debounceFire" /\ burst >= 2 /\ renders = 1 /\ PreviewCurrent

TokenDecodes == fromUrl(url).k = "obj"

SnapshotParses == StorageParse(storage).ok /\ StorageParse(storage).v.k = "obj"

\* C3: after a load at an address whose token decodes, with a stored snapshot that
\* parses, every buffer holds what the token gave it.
C3_ShareTokenWins ==
    (lastOp.op = "load" /\ TokenDecodes /\ SnapshotParses)
        => \A f \in Buffers : origin[f] = "url"

\* C4: no load lets an exception escape; without a token that decodes, a stored
\* value that does not parse and no `initial` prop, the buffers are the default
\* bundle; with a token that does not decode and a snapshot that parses, each
\* buffer the snapshot has is the snapshot's.
C4_RestoreFallsThrough ==
    lastOp.op = "load" =>
        /\ ~crashed
        /\ (~TokenDecodes /\ storage.present /\ ~StorageParse(storage).ok
                /\ initial = NoFields
              => Current = DEFAULT_TEMPLATE)
        /\ (url.present /\ url.q # <<>> /\ ~TokenDecodes /\ SnapshotParses
              => \A f \in Buffers :
                    LET x == StorageParse(storage).v.o[f] IN
                    x.k = "str" => Current[f] = x.s /\ origin[f] = "storage")

\* a load at ?code=!! over a truncated snapshot
C4_Witness ==
    /\ lastOp.op = "load"
    /\ url = WithCode(<<33, 33>>)
    /\ storage.present /\ ~StorageParse(storage).ok
    /\ initial = NoFields
    /\ Current = DEFAULT_TEMPLATE

\* C5: decodeState(encodeState(b)) is b, field for field, for the buffers b; and
\* after loading the address Share copied, the buffers are the ones shared.
C5_ShareRoundTrip ==
    /\ LET d == decodeState(encodeState(Current)) IN
       /\ d.k = "obj"
       /\ \A f \in Buffers : d.o[f] = StrVal(Current[f])
    /\ (lastOp.op = "loadShared" => Current = shared.b /\ \A f \in Buffers : origin[f] = "url")

\* a bundle with a quote and a dash came back from the address, over a snapshot
C5_Witness ==
    /\ lastOp.op = "loadShared"
    /\ html = <<34, 8212>>
    /\ css = <<92>>
    /\ storage.present
    /\ Current = shared.b

\* C6: after applyTemplate(name), name one of the three, the buffers are the preset's.
C6_TemplateReplacesAll ==
    \A n \in TemplateNames :
        lastOp = OpArg("applyTemplate", n) => Current = TEMPLATES[n]

\* a preset applied over edited buffers
C6_Witness ==
    /\ lastOp = OpArg("applyTemplate", "starter")
    /\ nEdits = 3
    /\ Current = TEMPLATES["starter"]

\* C7: a save whose write throws changes nothing: no exception escapes, the slot,
\* the buffers, the UI state, lastSavedAt and the preview are as before.
C7_SaveFailureSilent ==
    [][lastOp'.op = "saveFailed" =>
        /\ ~crashed'
        /\ UNCHANGED <<storage, html, css, js, activeEditor, autoUpdate, lastSavedAt,
                       iframe, timers>>]_vars

\* a save failed over an earlier snapshot of other buffers
C7_Witness ==
    /\ lastOp.op = "saveFailed"
    /\ saved.set /\ saved.b # Current
    /\ lastSavedAt # Null

\* C8: once a save succeeded, the slot parses to the bundle of the latest such
\* save; after a load at an address without a token the buffers are that bundle.
C8_SaveRoundTrip ==
    saved.set =>
        /\ SnapshotParses
        /\ \A f \in Buffers : StorageParse(storage).v.o[f] = StrVal(saved.b[f])
        /\ (lastOp.op = "load" /\ ~url.present => Current = saved.b)

\* two saves, the second of edited buffers, then a load without a token
C8_Witness ==
    /\ lastOp.op = "load"
    /\ ~url.present
    /\ saved.set /\ nSaves = 2 /\ nEdits >= 2
    /\ lastSavedAt = Null
    /\ Current = saved.b
    /\ html = <<97, 34>>

\* C9: a write to the preview (the debounce timer, Refresh, the refresh of the
\* first load) writes the document of the buffers as they are then.
C9_RenderWritesLatest ==
    lastOp.op \in {"debounceFire", "refresh", "firstRefresh"} => PreviewCurrent

Changing == <<html, css, js, autoUpdate>>' # <<html, css, js, autoUpdate>>

\* C10: if autoUpdate stays on and the buffers and autoUpdate stop changing, the
\* preview comes to show the document of the buffers and keeps showing it.
C10_PreviewEventuallyCurrent ==
    (<>[]autoUpdate /\ <>[][~Changing]_vars) => <>[]PreviewCurrent

\* the preview shows edited buffers, no timer left
C10_Witness == autoUpdate /\ nEdits = 3 /\ timers = {} /\ PreviewCurrent /\ burst = 1

=============================================================================
